---- MODULE Spec2Model ----
(***************************************************************************)
(* A model of hipercam's "reduce" script (src/hipercam/scripts/reduce.py): *)
(* the frame loop of reduce(), the per-CCD worker ccdproc(), and the parts *)
(* of hipercam.reduction they call (process_ccds, moveApers, extractFlux,  *)
(* LogWriter.write_results, update_plots and its plot buffers).  The       *)
(* module hipercam.reduction is not among the source files, so those       *)
(* operators are written from the specification (sections 4.1 to 4.4 and   *)
(* 5); each says so in its comment.                                        *)
(***************************************************************************)
EXTENDS Integers, Sequences, FiniteSets, TLC

(***************************************************************************)
(* Bounds of the model.                                                    *)
(***************************************************************************)
\* number of items the frame source yields before it is exhausted
MaxItems == 3

(***************************************************************************)
(* The instrument and the reduce file.                                     *)
(***************************************************************************)
\* the detectors of a frame in the frame's canonical order: the order in
\* which iterating over the MCCD yields its CCDs
CcdOrder == <<"1", "2">>

CCDs == {CcdOrder[i] : i \in 1..Len(CcdOrder)}

\* rfile.aper: the aperture ids defined for each CCD
ApIds(cnam) == IF cnam = "1" THEN {1, 2} ELSE {1}

\* reference position of an aperture (rfile.aper before the first frame)
RefX(cnam, ap) == 10 * ap

\* reduce-file thresholds of the aperture tracker (section 4.1)
HeightMin == 1
FwhmMin == 1
FwhmMax == 5

\* the raw level at which a pixel counts as saturated, and the bias level the
\* calibration takes off the raw values (reduce.py 382-389)
SatLevel == 9
Bias == 1

\* 'mfwhm' of a Store entry that has seen no accepted fit yet
NoFwhm == -1

(***************************************************************************)
(* What a frame holds.  Each CCD of a frame shows one of a few scenes.     *)
(*   "off"   the CCD needs no processing in this frame                     *)
(*   "good"  every aperture has a bright, sharp target                     *)
(*   "faint" the target of the lowest aperture is below the height limit   *)
(*   "wide"  the target of the highest aperture is wider than the limit    *)
(*   "sat"   the target of the highest aperture has a saturated raw pixel   *)
(*   "raise" tracking or extraction raises an exception on this CCD        *)
(* 'drift' is the telescope offset of the frame: where targets have moved. *)
(* 'good' is the GOODTIME header of the frame (reduce.py 371).             *)
(***************************************************************************)
Scenes == {"off", "good", "faint", "wide", "sat", "raise"}

\* the telescope wobbles: the targets of odd and even items sit one pixel
\* apart
DriftAt(item) == item % 2

\* the source marks the second item of the spool as not-good-time
GoodTime(item) == item # 2

\* the frames item number 'item' of the spool can be
Frames(item) ==
    [scene : [CCDs -> Scenes], drift : {DriftAt(item)},
     good : {GoodTime(item)}]

NoFrame == [scene |-> [c \in CCDs |-> "off"], drift |-> 0, good |-> TRUE]

Min(S) == CHOOSE x \in S : \A y \in S : x <= y

Max(S) == CHOOSE x \in S : \A y \in S : x >= y

\* the highest raw pixel value within an aperture (the unprocessed frame
\* 'mccd' of reduce.py 382-389)
RawPeak(frame, cnam, ap) ==
    IF frame.scene[cnam] = "sat" /\ ap = Max(ApIds(cnam)) THEN SatLevel
    ELSE IF frame.scene[cnam] = "faint" /\ ap = Min(ApIds(cnam)) THEN Bias
    ELSE 3 + Bias

\* the same pixel after calibration (the processed frame 'pccd')
CalPeak(frame, cnam, ap) == RawPeak(frame, cnam, ap) - Bias

\* the profile fit of one aperture on one CCD of a frame: what the
\* least-squares fit of section 4.1 returns for the scene
FitOf(frame, cnam, ap) ==
    LET wide == frame.scene[cnam] = "wide" /\ ap = Max(ApIds(cnam))
    IN  [height |-> CalPeak(frame, cnam, ap),
         fwhm |-> IF wide THEN 7 ELSE 2 + frame.drift,
         x |-> RefX(cnam, ap) + frame.drift]

\* section 4.1, edge-case policy: a fit is rejected if its height is below
\* the minimum or its width falls outside [min, max]
FitRejected(fit) ==
    \/ fit.height < HeightMin
    \/ fit.fwhm < FwhmMin
    \/ fit.fwhm > FwhmMax


(***************************************************************************)
(* The Store and the apertures.  A Store entry is the per-CCD dictionary   *)
(* handed to ccdproc: 'mfwhm' seeds the next frame's fit, 'bad' is the     *)
(* "extra stuff" moveApers leaves for extractFlux (the apertures whose fit *)
(* was rejected in the frame being processed).                             *)
(***************************************************************************)
NewEntry == [mfwhm |-> NoFwhm, bad |-> {}]

InitAper == [c \in CCDs |-> [ap \in ApIds(c) |-> RefX(c, ap)]]

\* the exception of section 4.3: tracking or extraction raises on this CCD
Raises(frame, cnam) == frame.scene[cnam] = "raise"

\* a tracker that follows the fit whether or not it was rejected
moveApersAlways(cnam, frame, ccdaper, st) ==
    LET rej == {ap \in DOMAIN ccdaper : FitRejected(FitOf(frame, cnam, ap))}
    IN  [ccdaper |-> [ap \in DOMAIN ccdaper |-> FitOf(frame, cnam, ap).x],
         store |-> [mfwhm |-> FitOf(frame, cnam, Min(DOMAIN ccdaper)).fwhm,
                    bad |-> rej]]

\* moveApers (hipercam.reduction; sections 4.1 and 7): every aperture is
\* refitted; a rejected fit leaves the aperture where it was and is flagged,
\* an accepted fit moves the aperture to the fitted position; the Store
\* entry takes the width of the accepted fits (direct replacement).
moveApers(cnam, frame, ccdaper, st) ==
    LET rej == {ap \in DOMAIN ccdaper : FitRejected(FitOf(frame, cnam, ap))}
        acc == (DOMAIN ccdaper) \ rej
    IN  [ccdaper |-> [ap \in DOMAIN ccdaper |->
                        IF ap \in rej THEN ccdaper[ap]
                        ELSE FitOf(frame, cnam, ap).x],
         store |-> [mfwhm |-> IF acc = {} THEN st.mfwhm
                              ELSE FitOf(frame, cnam, Min(acc)).fwhm,
                    bad |-> rej]]

\* an extractor that leaves out the apertures whose fit was rejected
extractFluxOmitting(cnam, frame, ccdaper, st) ==
    [ap \in (DOMAIN ccdaper) \ st.bad |->
        [x |-> ccdaper[ap],
         flux |-> IF ccdaper[ap] = FitOf(frame, cnam, ap).x
                  THEN FitOf(frame, cnam, ap).height ELSE 0,
         bad |-> FALSE,
         sat |-> RawPeak(frame, cnam, ap) >= SatLevel]]

\* an extractor that judges saturation on the calibrated values
extractFluxCalibrated(cnam, frame, ccdaper, st) ==
    [ap \in DOMAIN ccdaper |->
        [x |-> ccdaper[ap],
         flux |-> IF ccdaper[ap] = FitOf(frame, cnam, ap).x
                  THEN FitOf(frame, cnam, ap).height ELSE 0,
         bad |-> ap \in st.bad,
         sat |-> CalPeak(frame, cnam, ap) >= SatLevel]]

\* extractFlux (hipercam.reduction; section 4.2): one ExtractionResult per
\* aperture, at the position tracking left it.  The flux is that of the
\* target if the aperture sits on it and sky (0) otherwise; a rejected fit
\* gives a flagged result, not an omitted one.  Saturation is judged on the
\* raw values (the 'rccd' ccdproc passes on, reduce.py 469-473), and the
\* flux of a saturated aperture is reported all the same.
extractFlux(cnam, frame, ccdaper, st) ==
    [ap \in DOMAIN ccdaper |->
        [x |-> ccdaper[ap],
         flux |-> IF ccdaper[ap] = FitOf(frame, cnam, ap).x
                  THEN FitOf(frame, cnam, ap).height ELSE 0,
         bad |-> ap \in st.bad,
         sat |-> RawPeak(frame, cnam, ap) >= SatLevel]]

\* a ccdproc that returns the Store entry as it was before tracking
ccdprocStaleStore(cnam, frame, ccdaper, st) ==
    IF Raises(frame, cnam)
    THEN [raised |-> TRUE, cnam |-> cnam]
    ELSE LET m == moveApers(cnam, frame, ccdaper, st)
         IN  [raised |-> FALSE, cnam |-> cnam, store |-> st,
              ccdaper |-> m.ccdaper,
              results |-> extractFlux(cnam, frame, m.ccdaper, m.store)]

\* a ccdproc that returns its results under the name of the first CCD
ccdprocWrongName(cnam, frame, ccdaper, st) ==
    IF Raises(frame, cnam)
    THEN [raised |-> TRUE, cnam |-> cnam]
    ELSE LET m == moveApers(cnam, frame, ccdaper, st)
         IN  [raised |-> FALSE, cnam |-> CcdOrder[1], store |-> m.store,
              ccdaper |-> m.ccdaper,
              results |-> extractFlux(cnam, frame, m.ccdaper, m.store)]

\* a ccdproc that extracts the flux before it moves the apertures
ccdprocExtractFirst(cnam, frame, ccdaper, st) ==
    IF Raises(frame, cnam)
    THEN [raised |-> TRUE, cnam |-> cnam]
    ELSE LET m == moveApers(cnam, frame, ccdaper, st)
         IN  [raised |-> FALSE, cnam |-> cnam, store |-> m.store,
              ccdaper |-> m.ccdaper,
              results |-> extractFlux(cnam, frame, ccdaper, st)]

\* ccdproc (reduce.py 413-473): move the apertures, then extract the flux,
\* and return the CCD name, the Store entry, the apertures and the results.
\* It has no exception handler: if a step raises, nothing is returned.
ccdproc(cnam, frame, ccdaper, st) ==
    IF Raises(frame, cnam)
    THEN [raised |-> TRUE, cnam |-> cnam]
    ELSE LET m == moveApers(cnam, frame, ccdaper, st)
         IN  [raised |-> FALSE, cnam |-> cnam, store |-> m.store,
              ccdaper |-> m.ccdaper,
              results |-> extractFlux(cnam, frame, m.ccdaper, m.store)]

(***************************************************************************)
(* process_ccds (hipercam.reduction; section 4.3).                         *)
(***************************************************************************)
\* the CCDs of a frame that need processing, as a set
Active(frame) == {c \in CCDs : frame.scene[c] # "off"}

RECURSIVE SelectOrder(_, _)
\* the members of S in the order of the sequence 'order'
SelectOrder(order, S) ==
    IF order = << >> THEN << >>
    ELSE IF Head(order) \in S
         THEN <<Head(order)>> \o SelectOrder(Tail(order), S)
         ELSE SelectOrder(Tail(order), S)

\* the argument list: the active CCDs in canonical order
ArgList(frame) == SelectOrder(CcdOrder, Active(frame))

\* the task handed to a worker: an isolated copy of the part of the Store
\* and of the apertures that belongs to its CCD, and nothing else.  'store'
\* and 'aper' are what the worker can reach, keyed by CCD name.
TaskFor(cnam, st, ap) ==
    [state |-> "queued", cnam |-> cnam,
     store |-> [k \in {cnam} |-> IF k \in DOMAIN st THEN st[k] ELSE NewEntry],
     aper |-> [k \in {cnam} |-> ap[k]]]

\* a worker runs ccdproc on its task
RunTask(frame, task) ==
    [state |-> "done", cnam |-> task.cnam, store |-> task.store,
     aper |-> task.aper,
     ret |-> ccdproc(task.cnam, frame, task.aper[task.cnam],
                     task.store[task.cnam])]

Dispatch(frame, st, ap) == [c \in Active(frame) |-> TaskFor(c, st, ap)]

\* the result of a CCD whose processing raised: flagged, no valid aperture
FailureResult(cnam, ap) ==
    [cnam |-> cnam, failed |-> TRUE,
     res |-> [a \in DOMAIN ap[cnam] |->
                [x |-> ap[cnam][a], flux |-> 0, bad |-> TRUE, sat |-> FALSE]]]

\* the result entry of one CCD in the merged list: the results the worker
\* returned, under the name it returned them with
ResultOf(task, ap) ==
    IF task.ret.raised THEN FailureResult(task.cnam, ap)
    ELSE [cnam |-> task.ret.cnam, failed |-> FALSE, res |-> task.ret.results]

\* a dispatcher that takes the messages as they arrive
MergeOrderAsCompleted(frame, done) == done

\* the order in which the returned messages are merged: that of the
\* argument list, whatever the order 'done' in which the workers ended
MergeOrder(frame, done) == ArgList(frame)

\* the merged per-frame result list
MergeResults(frame, tk, ap, done) ==
    LET order == MergeOrder(frame, done)
    IN  [i \in 1..Len(order) |-> ResultOf(tk[order[i]], ap)]

\* d with key k set to v, whether or not k is a key of d already
Put(d, k, v) == [x \in (DOMAIN d) \cup {k} |-> IF x = k THEN v ELSE d[x]]

RECURSIVE MergeStore(_, _, _)
\* the Store after the merge: every returned entry under the name returned
\* with it; a CCD that raised returns nothing and keeps its entry
MergeStore(order, tk, st) ==
    IF order = << >> THEN st
    ELSE LET ret == tk[Head(order)].ret
         IN  MergeStore(Tail(order), tk,
                        IF ret.raised THEN st ELSE Put(st, ret.cnam, ret.store))

RECURSIVE MergeAper(_, _, _)
\* the apertures after the merge, likewise
MergeAper(order, tk, ap) ==
    IF order = << >> THEN ap
    ELSE LET ret == tk[Head(order)].ret
         IN  MergeAper(Tail(order), tk,
                       IF ret.raised THEN ap ELSE Put(ap, ret.cnam, ret.ccdaper))

\* all workers of the frame have returned or raised: starmap unblocks
AllDone(tk) == \A c \in DOMAIN tk : tk[c].state = "done"

\* the alert strings of a frame (LogWriter.write_results): one for each CCD
\* that failed or has a flagged aperture, naming that CCD
RECURSIVE Alerts(_)
Alerts(res) ==
    IF res = << >> THEN << >>
    ELSE LET r == Head(res)
             flagged == r.failed \/ \E a \in DOMAIN r.res : r.res[a].bad
         IN  (IF flagged THEN <<r.cnam>> ELSE << >>) \o Alerts(Tail(res))

(***************************************************************************)
(* The bounded time-series buffer of update_plots (hipercam.reduction;     *)
(* section 4.4): append the point, then, if the keep window is not zero,   *)
(* drop points from the oldest end until the span fits in the window.      *)
(***************************************************************************)
RECURSIVE TrimStrict(_, _)
\* a trim that also drops the point that is exactly 'keep' old
TrimStrict(buf, keep) ==
    IF Len(buf) > 1 /\ buf[Len(buf)].t - buf[1].t >= keep
    THEN TrimStrict(Tail(buf), keep)
    ELSE buf

RECURSIVE Trim(_, _)
Trim(buf, keep) ==
    IF Len(buf) > 1 /\ buf[Len(buf)].t - buf[1].t > keep
    THEN Trim(Tail(buf), keep)
    ELSE buf

BufferAdd(buf, point, keep) ==
    IF keep # 0 THEN Trim(Append(buf, point), keep) ELSE Append(buf, point)

(***************************************************************************)
(* The state of a run of reduce.                                           *)
(***************************************************************************)
VARIABLES
    pc,         \* where reduce() is
    implot,     \* parameter 'implot'
    lplot,      \* parameter 'lplot'
    tkeep,      \* parameter 'tkeep'
    srvloc,     \* server_or_local (reduce.py 190)
    hasnf,      \* the frames of the source carry an NFRAME header
    ncpu,       \* rfile['general']['ncpu']
    nf,         \* number of items taken from the spool so far
    nframe,     \* frame number of the frame being reduced
    tzset,      \* the initial checks have passed
    cur,        \* the frame being reduced
    store,      \* the authoritative Store
    aper,       \* rfile.aper, the authoritative apertures
    tasks,      \* the tasks of process_ccds, by CCD name
    completed,  \* the CCDs of this frame whose worker has ended, in that order
    results,    \* the merged results of the frame
    alerts,     \* the alerts of the frame
    started,    \* number of frames handed to process_ccds so far
    merged,     \* number of frames whose Store update is in the Store
    logged,     \* frame number and time of each write to the log so far
    written,    \* the results passed to the log writer for this frame
    plotted,    \* the results passed to update_plots for this frame
    lbuffer     \* the light-curve buffer

(***************************************************************************)
(* The state of a Group (src/hipercam/group.py).                           *)
(***************************************************************************)
VARIABLES
    gst,        \* "none": no Group yet; "built": constructed; "failed": the
                \* constructor raised
    g,          \* the members, in the order of the OrderedDict: [key, item]
    otype,      \* attribute 'otype'
    checked,    \* the pairs of keys whose members have been through 'clash'
    glast       \* the last operation on the Group: the type of its key (of
                \* one that is no int, if it had one), whether the key was
                \* new to the Group, whether the types of the items given
                \* and held were mixed, whether two of these items
                \* clashed, and whether the operation raised

gvars == <<gst, g, otype, checked, glast>>

(***************************************************************************)
(* The state of a run of grab (src/hipercam/scripts/grab.py).              *)
(***************************************************************************)
VARIABLES
    tpc,        \* where grab() is
    temp,       \* parameter 'temp'
    tsrv,       \* server_or_local (grab.py 213)
    last,       \* parameter 'last'
    handler,    \* CleanUp._sigint_handler is the SIGINT handler
    taken,      \* number of items taken from the spool so far
    disk,       \* the names of the files grab has created and not removed
    fnames,     \* the list 'fnames'
    fname,      \* the local variable 'fname'
    flist,      \* cleanup.flist
    wrote,      \* the names of the frame files written, in that order
    listed,     \* the lines of the list file
    ret         \* what grab returned

tvars == <<tpc, temp, tsrv, last, handler, taken, disk, fnames, fname, flist,
           wrote, listed, ret>>

(***************************************************************************)
(* The state of a run of hpackage (src/hipercam/scripts/hpackage.py).      *)
(***************************************************************************)
VARIABLES
    hpc,        \* where hpackage() is
    tar,        \* parameter 'tar'
    hruns,      \* the number of runs named in 'runs'
    hrun,       \* the run being packaged
    hstep,      \* the step reached in packaging that run
    hdelete,    \* cleanup.delete
    hdir,       \* the temporary directory: "none", "exists" or "removed"
    htarfile,   \* the tar.gz file has been made
    hend        \* how the with block was left: "", "normal", "sigint", "error"

hvars == <<hpc, tar, hruns, hrun, hstep, hdelete, hdir, htarfile, hend>>

(***************************************************************************)
(* The state of a run of ncal (src/hipercam/scripts/ncal.py).              *)
(***************************************************************************)
VARIABLES
    npc,        \* where ncal() is
    nsrv,       \* server_or_local (ncal.py 170)
    nfirst,     \* parameter 'first'
    nlast,      \* parameter 'last'
    ntaken,     \* number of items taken from the spool so far
    ncount,     \* the local variable 'nframe' (ncal.py 257, 343)
    naccessed   \* the frame numbers of the frames accessed, in that order

nvars == <<npc, nsrv, nfirst, nlast, ntaken, ncount, naccessed>>

(***************************************************************************)
(* The state of the profile fits of rtplot (src/hipercam/scripts/          *)
(* rtplot.py), for one target.                                             *)
(***************************************************************************)
VARIABLES
    ppc,        \* where rtplot() is
    method,     \* parameter 'method': "g" or "m"
    fpar,       \* the stored parameters of the target: x, fwhm, beta
    pfit,       \* what the search and the fit of the last frame gave
    pframes     \* the local variable 'nframe' (rtplot.py 953)

pvars == <<ppc, method, fpar, pfit, pframes>>

(***************************************************************************)
(* The frame objects of one cycle of reduce (reduce.py 382-396).           *)
(***************************************************************************)
VARIABLES
    cpc,        \* where the cycle is
    cbias,      \* the level of rfile.bias, 0 if rfile.bias is None
    cflat,      \* the value of rfile.flat, 0 if rfile.flat is None
    craw,       \* the pixel value the source delivered
    heap,       \* the pixel value of each frame object
    mccd,       \* the object the name 'mccd' is bound to
    pccd        \* the object the name 'pccd' is bound to, 0 if unbound

cvars == <<cpc, cbias, cflat, craw, heap, mccd, pccd>>

\* the variables of the scripts other than reduce and grab
xvars == <<hvars, nvars, pvars, cvars>>

rvars == <<pc, implot, lplot, tkeep, srvloc, hasnf, ncpu, nf, nframe, tzset, cur,
           store, aper, tasks, completed, results, alerts, started, merged,
           logged, written, plotted, lbuffer>>

vars == <<rvars, gvars, tvars, xvars>>

config == <<implot, lplot, tkeep, srvloc, hasnf, ncpu>>

\* no name: None
NoName == <<"none", 0>>

\* no Group has been constructed
NoGroup ==
    /\ gst = "none"
    /\ g = << >>
    /\ otype = "None"
    /\ checked = {}
    /\ glast = [op |-> "none", key |-> "none", isnew |-> FALSE,
                mixed |-> FALSE, clash |-> FALSE, raised |-> FALSE]

\* hpackage is not running
NoHpackage ==
    /\ hpc = "off"
    /\ tar = FALSE
    /\ hruns = 0
    /\ hrun = 0
    /\ hstep = 0
    /\ hdelete = FALSE
    /\ hdir = "none"
    /\ htarfile = FALSE
    /\ hend = ""

\* ncal is not running
NoNcal ==
    /\ npc = "off"
    /\ nsrv = FALSE
    /\ nfirst = 1
    /\ nlast = 0
    /\ ntaken = 0
    /\ ncount = 0
    /\ naccessed = << >>

\* no fit has been made
NoFit == [failed |-> FALSE, peak |-> 0, height |-> 0, x |-> 0, fwhm |-> 0,
          beta |-> 0, inside |-> FALSE]

\* rtplot is not running
NoRtplot ==
    /\ ppc = "off"
    /\ method = "g"
    /\ fpar = [x |-> 0, fwhm |-> 0, beta |-> 0]
    /\ pfit = NoFit
    /\ pframes = 0

\* no frame is being calibrated
NoCalib ==
    /\ cpc = "off"
    /\ cbias = 0
    /\ cflat = 0
    /\ craw = 0
    /\ heap = << >>
    /\ mccd = 0
    /\ pccd = 0

NoOthers == NoHpackage /\ NoNcal /\ NoRtplot /\ NoCalib

\* grab is not running
NoGrab ==
    /\ tpc = "off"
    /\ temp = FALSE
    /\ tsrv = FALSE
    /\ last = 0
    /\ handler = FALSE
    /\ taken = 0
    /\ disk = {}
    /\ fnames = << >>
    /\ fname = NoName
    /\ flist = NoName
    /\ wrote = << >>
    /\ listed = << >>
    /\ ret = NoName

NoTasks == [c \in {} |-> 0]

\* reduce is not running
NoRun ==
    /\ pc = "off"
    /\ implot = FALSE
    /\ lplot = FALSE
    /\ tkeep = 0
    /\ srvloc = FALSE
    /\ hasnf = FALSE
    /\ ncpu = 1
    /\ nf = 0
    /\ nframe = 0
    /\ tzset = FALSE
    /\ cur = NoFrame
    /\ store = [c \in {} |-> NewEntry]
    /\ aper = InitAper
    /\ tasks = NoTasks
    /\ completed = << >>
    /\ results = << >>
    /\ alerts = << >>
    /\ started = 0
    /\ merged = 0
    /\ logged = << >>
    /\ written = << >>
    /\ plotted = << >>
    /\ lbuffer = << >>

Init ==
    /\ NoGroup
    /\ NoGrab
    /\ NoOthers
    /\ pc = "start"
    /\ implot \in BOOLEAN
    /\ lplot \in BOOLEAN
    /\ tkeep \in {0, 1}
    /\ srvloc \in BOOLEAN
    /\ hasnf \in BOOLEAN
    /\ ncpu \in {1, 2}
    /\ nf = 0
    /\ nframe = 0
    /\ tzset = FALSE
    /\ cur = NoFrame
    /\ store = [c \in {} |-> NewEntry]
    /\ aper = InitAper
    /\ tasks = NoTasks
    /\ completed = << >>
    /\ results = << >>
    /\ alerts = << >>
    /\ started = 0
    /\ merged = 0
    /\ logged = << >>
    /\ written = << >>
    /\ plotted = << >>
    /\ lbuffer = << >>

\* reduce.py 154-344: the parameters are read, the plots and the plot
\* buffers are set up, the log and the pool are opened.  With implot false
\* xlo, xhi, ylo, yhi, ccds and nx are never bound and line 311 raises.
Setup ==
    /\ pc = "start"
    /\ pc' = IF implot THEN "fetch" ELSE "crashed"
    /\ UNCHANGED <<gvars, tvars, xvars, config, nf, nframe, tzset, cur, store, aper, tasks,
                   completed, results, alerts, started, merged, logged, written,
                   plotted, lbuffer>>

\* a loop that takes the next item while the workers of the last frame are
\* still out
LoopReadyPipelined == pc \in {"fetch", "work"}

\* reduce.py 347-407: the for loop takes the next item of the spool when the
\* body has run to its end for the item before, and not earlier
LoopReady == pc = "fetch"

\* the spool has no more items: the for loop of line 347 ends
SpoolEnd ==
    /\ LoopReady
    /\ nf = MaxItems
    /\ pc' = "done"
    /\ UNCHANGED <<gvars, tvars, xvars, config, nf, nframe, tzset, cur, store, aper, tasks,
                   completed, results, alerts, started, merged, logged, written,
                   plotted, lbuffer>>

\* reduce.py 349-358: hang_about gives up, the loop breaks
GiveUp ==
    /\ LoopReady
    /\ nf < MaxItems
    /\ srvloc
    /\ pc' = "done"
    /\ nf' = nf + 1
    /\ UNCHANGED <<gvars, tvars, xvars, config, nframe, tzset, cur, store, aper, tasks,
                   completed, results, alerts, started, merged, logged, written,
                   plotted, lbuffer>>

\* a try_again that writes the results at hand to the log once more
TryAgainLogged ==
    /\ LoopReady
    /\ nf < MaxItems
    /\ srvloc
    /\ nf' = nf + 1
    /\ logged' = Append(logged, [nframe |-> nframe, t |-> nf])
    /\ UNCHANGED <<gvars, tvars, xvars, pc, config, nframe, tzset, cur, store,
                   aper, tasks, completed, results, alerts, started, merged,
                   written, plotted, lbuffer>>

\* reduce.py 349-360: hang_about says try again, the loop continues
TryAgain ==
    /\ LoopReady
    /\ nf < MaxItems
    /\ srvloc
    /\ nf' = nf + 1
    /\ UNCHANGED <<gvars, tvars, xvars, pc, config, nframe, tzset, cur, store, aper, tasks,
                   completed, results, alerts, started, merged, logged, written,
                   plotted, lbuffer>>

\* a frame number that does not follow the spool when there is no header
FrameNumberStuck == IF hasnf THEN Len(logged) + 1 ELSE 1

\* reduce.py 362-366: the frame number is the NFRAME header of the frame if
\* it has one (the source numbers the frames it delivers from first = 1),
\* and the position in the spool otherwise
FrameNumber == IF hasnf THEN Len(logged) + 1 ELSE nf + 1

\* a loop that goes on to the next frame when the initial checks fail
ChecksFailIgnored ==
    /\ LoopReady
    /\ nf < MaxItems
    /\ ~tzset
    /\ pc' = "fetch"
    /\ nf' = nf + 1
    /\ nframe' = FrameNumber
    /\ UNCHANGED <<gvars, tvars, xvars, config, tzset, cur, store, aper, tasks, completed,
                   results, alerts, started, merged, logged, written,
                   plotted, lbuffer>>

\* reduce.py 375-379: the initial checks fail on the first frame: the loop
\* is left by 'break' and reduce returns
ChecksFail ==
    /\ LoopReady
    /\ nf < MaxItems
    /\ ~tzset
    /\ pc' = "done"
    /\ nf' = nf + 1
    /\ nframe' = FrameNumber
    /\ UNCHANGED <<gvars, tvars, xvars, config, tzset, cur, store, aper, tasks, completed,
                   results, alerts, started, merged, logged, written,
                   plotted, lbuffer>>

\* reduce.py 347-396: a frame arrives, is numbered, checked and calibrated,
\* and process_ccds hands the active CCDs to the workers
ReduceFrame(frame) ==
    /\ LoopReady
    /\ nf < MaxItems
    /\ pc' = "work"
    /\ nf' = nf + 1
    /\ nframe' = FrameNumber
    /\ tzset' = TRUE
    /\ cur' = frame
    /\ tasks' = Dispatch(frame, store, aper)
    /\ completed' = << >>
    /\ results' = << >>
    /\ alerts' = << >>
    /\ written' = << >>
    /\ plotted' = << >>
    /\ started' = started + 1
    /\ UNCHANGED <<gvars, tvars, xvars, config, store, aper, merged, logged, lbuffer>>

\* the place of CCD c in the argument list 'order'
IndexOf(order, c) == CHOOSE i \in 1..Len(order) : order[i] = c

\* the CCD whose task may be taken up now: with a pool (reduce.py 332-336)
\* any queued one; without, the caller runs them one after the other in the
\* order of the argument list
MayRun(cnam) ==
    /\ cnam \in DOMAIN tasks
    /\ tasks[cnam].state = "queued"
    /\ \/ ncpu > 1
       \/ \A i \in 1..(IndexOf(ArgList(cur), cnam) - 1) :
             tasks[ArgList(cur)[i]].state = "done"

\* one worker (or, without a pool, the caller) runs ccdproc on one CCD
Worker(cnam) ==
    /\ pc = "work"
    /\ MayRun(cnam)
    /\ tasks' = [tasks EXCEPT ![cnam] = RunTask(cur, tasks[cnam])]
    /\ completed' = Append(completed, cnam)
    /\ UNCHANGED <<gvars, tvars, xvars, pc, config, nf, nframe, tzset, cur, store, aper, results,
                   alerts, started, merged, logged, written, plotted,
                   lbuffer>>

\* process_ccds returns (reduce.py 395-396): the returned Store entries and
\* apertures are merged under their CCD names, the results in canonical order
Merge ==
    /\ pc = "work"
    /\ AllDone(tasks)
    /\ pc' = "log"
    /\ results' = MergeResults(cur, tasks, aper, completed)
    /\ store' = MergeStore(ArgList(cur), tasks, store)
    /\ aper' = MergeAper(ArgList(cur), tasks, aper)
    /\ tasks' = NoTasks
    /\ merged' = merged + 1
    /\ UNCHANGED <<gvars, tvars, xvars, config, nf, nframe, tzset, cur, completed, alerts,
                   started, logged, written, plotted, lbuffer>>

\* a log write that does not wait for process_ccds to return
WriteResultsEarly ==
    /\ pc \in {"work", "log"}
    /\ pc' = "plot"
    /\ logged' = Append(logged, [nframe |-> nframe, t |-> nf])
    /\ written' = results
    /\ alerts' = Alerts(results)
    /\ UNCHANGED <<gvars, tvars, xvars, config, nf, nframe, tzset, cur, store, aper, tasks,
                   completed, results, started, merged, plotted, lbuffer>>

\* reduce.py 398-402: the results go to the log, which returns the alerts
WriteResults ==
    /\ pc = "log"
    /\ pc' = "plot"
    /\ logged' = Append(logged, [nframe |-> nframe, t |-> nf])
    /\ written' = results
    /\ alerts' = Alerts(results)
    /\ UNCHANGED <<gvars, tvars, xvars, config, nf, nframe, tzset, cur, store, aper, tasks,
                   completed, results, started, merged, plotted, lbuffer>>

\* a call of update_plots that passes 0 where tkeep belongs
UpdatePlotsKeepAll ==
    /\ pc = "plot"
    /\ IF lplot
       THEN /\ pc' = "fetch"
            /\ plotted' = results
            /\ lbuffer' = BufferAdd(lbuffer, [t |-> nf, nframe |-> nframe], 0)
       ELSE /\ pc' = "crashed"
            /\ UNCHANGED <<plotted, lbuffer>>
    /\ UNCHANGED <<gvars, tvars, xvars, config, nf, nframe, tzset, cur, store, aper, tasks,
                   completed, results, alerts, started, merged, logged,
                   written>>

\* an update of the plots that cuts the log to the keep window as well
UpdatePlotsTrimLog ==
    /\ pc = "plot"
    /\ IF lplot
       THEN /\ pc' = "fetch"
            /\ plotted' = results
            /\ lbuffer' = BufferAdd(lbuffer, [t |-> nf, nframe |-> nframe], tkeep)
            /\ logged' = IF tkeep # 0 THEN Trim(logged, tkeep) ELSE logged
       ELSE /\ pc' = "crashed"
            /\ UNCHANGED <<plotted, lbuffer, logged>>
    /\ UNCHANGED <<gvars, tvars, xvars, config, nf, nframe, tzset, cur, store, aper, tasks,
                   completed, results, alerts, started, merged, written>>

\* reduce.py 404-407: update_plots is called with the results, tkeep and the
\* buffers.  With lplot false the buffers of line 321 were never bound and
\* evaluating the arguments raises.
UpdatePlots ==
    /\ pc = "plot"
    /\ IF lplot
       THEN /\ pc' = "fetch"
            /\ plotted' = results
            /\ lbuffer' = BufferAdd(lbuffer, [t |-> nf, nframe |-> nframe], tkeep)
       ELSE /\ pc' = "crashed"
            /\ UNCHANGED <<plotted, lbuffer>>
    /\ UNCHANGED <<gvars, tvars, xvars, config, nf, nframe, tzset, cur, store, aper, tasks,
                   completed, results, alerts, started, merged, logged,
                   written>>

\* ctrl-C (reduce.py 46-48): the run can be stopped at any point; what is
\* in memory only is gone, what went to the log and the plots stays
Abort ==
    /\ pc \in {"fetch", "work", "log", "plot"}
    /\ pc' = "aborted"
    /\ tasks' = NoTasks
    /\ results' = << >>
    /\ UNCHANGED <<gvars, tvars, xvars, config, nf, nframe, tzset, cur, store, aper, completed, alerts,
                   started, merged, logged, written, plotted, lbuffer>>

Next ==
    \/ Setup
    \/ SpoolEnd
    \/ GiveUp
    \/ TryAgain
    \/ ChecksFail
    \/ \E frame \in Frames(nf + 1) : ReduceFrame(frame)
    \/ \E cnam \in CCDs : Worker(cnam)
    \/ Merge
    \/ WriteResults
    \/ UpdatePlots
    \/ Abort

Spec == Init /\ [][Next]_vars


(***************************************************************************)
(* Group (src/hipercam/group.py): an OrderedDict whose keys, member types  *)
(* and clashes are checked by the constructor and by __setitem__.          *)
(***************************************************************************)
\* the longest list of (key, item) pairs given to the constructor
MaxArgs == 2

\* the keys tried: integers, and a string and a bool, whose type is not int
Keys == [kind : {"int"}, val : 1..3] \cup [kind : {"str", "bool"}, val : {1}]

\* the types of the objects tried
Types == {"Window", "Aperture"}

\* the objects tried: their type and the pixels they cover
Objects == [type : Types, cells : {{1}, {2}, {3}, {1, 2}}]

\* a.clash(b) raises: the two have a pixel in common
Clash(a, b) == a.cells \cap b.cells # {}

\* the argument lists of the constructor
ArgLists == UNION {[1..n -> [key : Keys, item : Objects]] : n \in 0..MaxArgs}

\* the keys of an ordered dictionary
KeysOf(m) == {m[i].key : i \in 1..Len(m)}

\* OrderedDict.__setitem__ (group.py 90): a new key goes to the end, a key
\* that is there keeps its place and takes the new item
DictSet(m, key, item) ==
    IF key \in KeysOf(m)
    THEN [i \in 1..Len(m) |->
            IF m[i].key = key THEN [key |-> key, item |-> item] ELSE m[i]]
    ELSE Append(m, [key |-> key, item |-> item])

\* the pairs of keys 'checked' after 'key' has taken an item that went
\* through clash with every member of m
Rechecked(ck, m, key) ==
    {p \in ck : key \notin p} \cup {{key, k} : k \in (KeysOf(m) \ {key})}

\* a __setitem__ without the loop over clash
setitemNoClash(m, ot, ck, key, item) ==
    IF key.kind # "int" THEN [raised |-> TRUE, g |-> m, checked |-> ck]
    ELSE IF ot # "None" /\ item.type # ot
    THEN [raised |-> TRUE, g |-> m, checked |-> ck]
    ELSE [raised |-> FALSE, g |-> DictSet(m, key, item), checked |-> ck]

\* a __setitem__ without the check of the key
setitemAnyKey(m, ot, ck, key, item) ==
    IF ot # "None" /\ item.type # ot
    THEN [raised |-> TRUE, g |-> m, checked |-> ck]
    ELSE IF \E i \in 1..Len(m) : Clash(item, m[i].item)
    THEN [raised |-> TRUE, g |-> m, checked |-> ck]
    ELSE [raised |-> FALSE, g |-> DictSet(m, key, item),
          checked |-> Rechecked(ck, m, key)]

\* a __setitem__ that stores the item first and runs its checks afterwards
setitemStoreFirst(m, ot, ck, key, item) ==
    IF key.kind # "int"
    THEN [raised |-> TRUE, g |-> DictSet(m, key, item), checked |-> ck]
    ELSE IF ot # "None" /\ item.type # ot
    THEN [raised |-> TRUE, g |-> DictSet(m, key, item), checked |-> ck]
    ELSE IF \E i \in 1..Len(m) : Clash(item, m[i].item)
    THEN [raised |-> TRUE, g |-> DictSet(m, key, item), checked |-> ck]
    ELSE [raised |-> FALSE, g |-> DictSet(m, key, item),
          checked |-> Rechecked(ck, m, key)]

\* a __setitem__ that looks for clashes among the members under other keys
\* only
setitemSkipSame(m, ot, ck, key, item) ==
    IF key.kind # "int" THEN [raised |-> TRUE, g |-> m, checked |-> ck]
    ELSE IF ot # "None" /\ item.type # ot
    THEN [raised |-> TRUE, g |-> m, checked |-> ck]
    ELSE IF \E i \in 1..Len(m) : m[i].key # key /\ Clash(item, m[i].item)
    THEN [raised |-> TRUE, g |-> m, checked |-> ck]
    ELSE [raised |-> FALSE, g |-> DictSet(m, key, item),
          checked |-> Rechecked(ck, m, key)]

\* Group.__setitem__ (group.py 68-90) on members m with attribute otype ot:
\* the key must be an int; the item must have the type otype, if otype is
\* set; the item must not clash with any member (the one it replaces
\* included); then it is stored.  otype is not assigned here.
setitem(m, ot, ck, key, item) ==
    IF key.kind # "int" THEN [raised |-> TRUE, g |-> m, checked |-> ck]
    ELSE IF ot # "None" /\ item.type # ot
    THEN [raised |-> TRUE, g |-> m, checked |-> ck]
    ELSE IF \E i \in 1..Len(m) : Clash(item, m[i].item)
    THEN [raised |-> TRUE, g |-> m, checked |-> ck]
    ELSE [raised |-> FALSE, g |-> DictSet(m, key, item),
          checked |-> Rechecked(ck, m, key)]

RECURSIVE update(_, _)
\* OrderedDict.__init__ (group.py 40) stores its arguments one by one with
\* self[key] = item, that is through Group.__setitem__, while otype is None;
\* it stops at the first one that raises
update(acc, args) ==
    IF args = << >> \/ acc.raised THEN acc
    ELSE update(setitem(acc.g, "None", acc.checked,
                        Head(args).key, Head(args).item),
                Tail(args))

\* what a constructor that raised leaves: no Group
Raised == [raised |-> TRUE, g |-> << >>, otype |-> "None", checked |-> {}]

\* Group.__init__ (group.py 29-66)
GroupInit(args) ==
    LET u == update([raised |-> FALSE, g |-> << >>, checked |-> {}], args)
        m == u.g
    IN  IF u.raised THEN Raised
        ELSE IF \E i \in 1..Len(m) : m[i].key.kind # "int" THEN Raised
        ELSE IF m = << >>
        THEN [raised |-> FALSE, g |-> m, otype |-> "None", checked |-> {}]
        ELSE IF \E i \in 2..Len(m) : m[i].item.type # m[1].item.type
        THEN Raised
        ELSE IF \E i, j \in 1..Len(m) : i < j /\ Clash(m[i].item, m[j].item)
        THEN Raised
        ELSE [raised |-> FALSE, g |-> m, otype |-> m[1].item.type,
              checked |-> u.checked \cup
                          ({{m[i].key, m[j].key} : i, j \in 1..Len(m)}
                             \ {{m[i].key} : i \in 1..Len(m)})]

\* Group(args)
Construct(args) ==
    /\ gst = "none"
    /\ LET r == GroupInit(args)
       IN  /\ gst' = IF r.raised THEN "failed" ELSE "built"
           /\ g' = r.g
           /\ otype' = r.otype
           /\ checked' = r.checked
           /\ glast' = [op |-> "init",
                        key |-> IF \A i \in 1..Len(args) :
                                      args[i].key.kind = "int"
                                THEN "int" ELSE "other",
                        isnew |-> TRUE,
                        mixed |-> \E i, j \in 1..Len(args) :
                                     args[i].item.type # args[j].item.type,
                        clash |-> \E i, j \in 1..Len(args) :
                                     /\ i < j
                                     /\ Clash(args[i].item, args[j].item),
                        raised |-> r.raised]
    /\ UNCHANGED <<rvars, tvars, xvars>>

\* group[key] = item
SetItem(key, item) ==
    /\ gst = "built"
    /\ LET r == setitem(g, otype, checked, key, item)
       IN  /\ g' = r.g
           /\ checked' = r.checked
           /\ glast' = [op |-> "set",
                        key |-> key.kind,
                        isnew |-> key \notin KeysOf(g),
                        mixed |-> \E i \in 1..Len(g) :
                                     g[i].item.type # item.type,
                        clash |-> \E i \in 1..Len(g) :
                                     Clash(item, g[i].item),
                        raised |-> r.raised]
    /\ UNCHANGED <<gst, otype, rvars, tvars, xvars>>

InitGroup == NoRun /\ NoGrab /\ NoOthers /\ NoGroup

NextGroup ==
    \/ \E args \in ArgLists : Construct(args)
    \/ \E key \in Keys, item \in Objects : SetItem(key, item)

SpecGroup == InitGroup /\ [][NextGroup]_vars


(***************************************************************************)
(* grab (src/hipercam/scripts/grab.py) and the context manager CleanUp     *)
(* that removes its temporary files on ctrl-C.  The spool yields at most   *)
(* MaxItems items; the first frame is frame 1.                             *)
(***************************************************************************)
\* the elements of a sequence
Range(q) == {q[i] : i \in 1..Len(q)}

\* the name tempfile.mkstemp gives the next frame file: one not used before
TempName == <<"hcm", Len(fnames) + 1>>

\* the name of the list file
ListName == <<"lis", 1>>

\* the frame number 'nframe' (grab.py 342, 456)
FrameNo == 1 + Len(wrote)

\* the name of a frame file of a run, without temp (grab.py 444)
RunName == <<"run", FrameNo>>

\* grab.py 457-458: the frame just written was the last one asked for
WasLast == tsrv /\ last # 0 /\ FrameNo + 1 > last

\* the places of grab at which the loop or what follows it is running
Running ==
    {"loop", "frame", "made", "named", "endloop", "tolist", "mklist",
     "flisted", "listdone"}

InitGrab ==
    /\ NoRun
    /\ NoGroup
    /\ NoOthers
    /\ tpc = "start"
    /\ temp \in BOOLEAN
    /\ tsrv \in BOOLEAN
    /\ last \in 0..MaxItems
    /\ ~tsrv => last = 0
    /\ handler = FALSE
    /\ taken = 0
    /\ disk = {}
    /\ fnames = << >>
    /\ fname = NoName
    /\ flist = NoName
    /\ wrote = << >>
    /\ listed = << >>
    /\ ret = NoName

\* grab.py 166-354: the parameters are read, fnames is the empty list, and
\* CleanUp makes its handler the SIGINT handler (485-490)
GrabStart ==
    /\ tpc = "start"
    /\ tpc' = "loop"
    /\ handler' = TRUE
    /\ UNCHANGED <<rvars, gvars, xvars, temp, tsrv, last, taken, disk, fnames, fname,
                   flist, wrote, listed, ret>>

\* grab.py 358-368: hang_about says try again
GrabTryAgain ==
    /\ tpc = "loop"
    /\ taken < MaxItems
    /\ tsrv
    /\ taken' = taken + 1
    /\ UNCHANGED <<rvars, gvars, xvars, tpc, temp, tsrv, last, handler, disk, fnames,
                   fname, flist, wrote, listed, ret>>

\* grab.py 358-366: hang_about gives up, the loop breaks
GrabGiveUp ==
    /\ tpc = "loop"
    /\ taken < MaxItems
    /\ tsrv
    /\ tpc' = "endloop"
    /\ taken' = taken + 1
    /\ UNCHANGED <<rvars, gvars, xvars, temp, tsrv, last, handler, disk, fnames,
                   fname, flist, wrote, listed, ret>>

\* grab.py 356, 370-433: a frame arrives and is trimmed and calibrated
GrabFrame ==
    /\ tpc = "loop"
    /\ taken < MaxItems
    /\ tpc' = "frame"
    /\ taken' = taken + 1
    /\ UNCHANGED <<rvars, gvars, xvars, temp, tsrv, last, handler, disk, fnames,
                   fname, flist, wrote, listed, ret>>

\* grab.py 356: the spool has no more items
GrabSpoolEnd ==
    /\ tpc = "loop"
    /\ taken = MaxItems
    /\ tpc' = "endloop"
    /\ UNCHANGED <<rvars, gvars, xvars, temp, tsrv, last, handler, taken, disk,
                   fnames, fname, flist, wrote, listed, ret>>

\* grab.py 438: mkstemp creates the file and returns its name
MkStemp ==
    /\ tpc = "frame"
    /\ temp
    /\ tpc' = "made"
    /\ disk' = disk \cup {TempName}
    /\ fname' = TempName
    /\ UNCHANGED <<rvars, gvars, xvars, temp, tsrv, last, handler, taken, fnames,
                   flist, wrote, listed, ret>>

\* grab.py 439: the name goes into fnames
AppendName ==
    /\ tpc = "made"
    /\ tpc' = "named"
    /\ fnames' = Append(fnames, fname)
    /\ UNCHANGED <<rvars, gvars, xvars, temp, tsrv, last, handler, taken, disk,
                   fname, flist, wrote, listed, ret>>

\* grab.py 440-441, 453-458: the frame is written to the temporary file,
\* the frame number goes up, the loop ends if that was the last frame
WriteFrame ==
    /\ tpc = "named"
    /\ tpc' = IF WasLast THEN "endloop" ELSE "loop"
    /\ wrote' = Append(wrote, fname)
    /\ UNCHANGED <<rvars, gvars, xvars, temp, tsrv, last, handler, taken, disk,
                   fnames, fname, flist, listed, ret>>

\* grab.py 443-458: without temp the frame is written under a name made
\* from the run and the frame number
WriteRun ==
    /\ tpc = "frame"
    /\ ~temp
    /\ tpc' = IF WasLast THEN "endloop" ELSE "loop"
    /\ fname' = RunName
    /\ disk' = disk \cup {RunName}
    /\ wrote' = Append(wrote, RunName)
    /\ UNCHANGED <<rvars, gvars, xvars, temp, tsrv, last, handler, taken, fnames,
                   flist, listed, ret>>

\* grab.py 460-465, 479, 506-508: after the loop.  Without temp grab is
\* finished; with temp and no file grabbed it raises HipercamError; either
\* way CleanUp.__exit__ puts the old SIGINT handler back
EndLoop ==
    /\ tpc = "endloop"
    /\ IF ~temp THEN tpc' = "finished" /\ handler' = FALSE
       ELSE IF Len(fnames) = 0 THEN tpc' = "raised" /\ handler' = FALSE
       ELSE tpc' = "tolist" /\ handler' = handler
    /\ UNCHANGED <<rvars, gvars, xvars, temp, tsrv, last, taken, disk, fnames, fname,
                   flist, wrote, listed, ret>>

\* grab.py 468: mkstemp creates the list file
MkList ==
    /\ tpc = "tolist"
    /\ tpc' = "mklist"
    /\ disk' = disk \cup {ListName}
    /\ fname' = ListName
    /\ UNCHANGED <<rvars, gvars, xvars, temp, tsrv, last, handler, taken, fnames,
                   flist, wrote, listed, ret>>

\* grab.py 469: cleanup.flist = fname
SetFlist ==
    /\ tpc = "mklist"
    /\ tpc' = "flisted"
    /\ flist' = fname
    /\ UNCHANGED <<rvars, gvars, xvars, temp, tsrv, last, handler, taken, disk,
                   fnames, fname, wrote, listed, ret>>

RECURSIVE Reverse(_)
Reverse(q) == IF q = << >> THEN << >> ELSE Append(Reverse(Tail(q)), Head(q))

\* a list written last name first
WriteListReversed ==
    /\ tpc = "flisted"
    /\ tpc' = "listdone"
    /\ listed' = Reverse(fnames)
    /\ UNCHANGED <<rvars, gvars, xvars, temp, tsrv, last, handler, taken, disk,
                   fnames, fname, flist, wrote, ret>>

\* grab.py 470-474: the names in fnames are written to the list file, one
\* to a line, in the order of fnames
WriteList ==
    /\ tpc = "flisted"
    /\ tpc' = "listdone"
    /\ listed' = fnames
    /\ UNCHANGED <<rvars, gvars, xvars, temp, tsrv, last, handler, taken, disk,
                   fnames, fname, flist, wrote, ret>>

\* grab.py 477, 506-508: grab returns the name of the list file;
\* CleanUp.__exit__ puts the old SIGINT handler back
Return ==
    /\ tpc = "listdone"
    /\ tpc' = "returned"
    /\ ret' = fname
    /\ handler' = FALSE
    /\ UNCHANGED <<rvars, gvars, xvars, temp, tsrv, last, taken, disk, fnames, fname,
                   flist, wrote, listed>>

\* SIGINT arrives while grab runs.  With CleanUp's handler in place
\* (grab.py 492-501) the files named in fnames and the file named by flist
\* are removed, if temp, and the process exits; before that the default
\* handler ends grab with KeyboardInterrupt.
Sigint ==
    /\ tpc \in Running \cup {"start"}
    /\ IF handler
       THEN /\ tpc' = "exited"
            /\ disk' = IF temp
                       THEN disk \ (Range(fnames) \cup
                                      (IF flist # NoName THEN {flist} ELSE {}))
                       ELSE disk
       ELSE /\ tpc' = "killed"
            /\ disk' = disk
    /\ UNCHANGED <<rvars, gvars, xvars, temp, tsrv, last, handler, taken, fnames,
                   fname, flist, wrote, listed, ret>>

NextGrab ==
    \/ GrabStart
    \/ GrabTryAgain
    \/ GrabGiveUp
    \/ GrabFrame
    \/ GrabSpoolEnd
    \/ MkStemp
    \/ AppendName
    \/ WriteFrame
    \/ WriteRun
    \/ EndLoop
    \/ MkList
    \/ SetFlist
    \/ WriteList
    \/ Return
    \/ Sigint

SpecGrab == InitGrab /\ [][NextGrab]_vars


(***************************************************************************)
(* hpackage (src/hipercam/scripts/hpackage.py) and its context manager     *)
(* CleanUp, which decides what becomes of the temporary directory.         *)
(***************************************************************************)
\* the largest number of runs named in 'runs'
MaxRuns == 2

\* the steps of packaging one run (hpackage.py 125-230): joinup, hlog2fits,
\* the copy of the standard files, the copy of the calibration files
NSteps == 4

InitHpackage ==
    /\ NoRun
    /\ NoGroup
    /\ NoGrab
    /\ NoNcal
    /\ NoRtplot
    /\ NoCalib
    /\ hpc = "start"
    /\ tar \in BOOLEAN
    /\ hruns \in 1..MaxRuns
    /\ hrun = 0
    /\ hstep = 0
    /\ hdelete = FALSE
    /\ hdir = "none"
    /\ htarfile = FALSE
    /\ hend = ""

\* hpackage.py 114-118, 244-254: CleanUp is made with delete = tar and its
\* handler becomes the SIGINT handler
HpEnter ==
    /\ hpc = "start"
    /\ hpc' = "entered"
    /\ hdelete' = tar
    /\ UNCHANGED <<rvars, gvars, tvars, nvars, pvars, cvars, tar, hruns, hrun,
                   hstep, hdir, htarfile, hend>>

\* hpackage.py 120-122: the temporary directory is created
HpMakeDir ==
    /\ hpc = "entered"
    /\ hpc' = "runs"
    /\ hdir' = "exists"
    /\ hrun' = 1
    /\ hstep' = 1
    /\ UNCHANGED <<rvars, gvars, tvars, nvars, pvars, cvars, tar, hruns,
                   hdelete, htarfile, hend>>

\* hpackage.py 125-230: one step of packaging a run succeeds
HpStep ==
    /\ hpc = "runs"
    /\ IF hstep < NSteps
       THEN hstep' = hstep + 1 /\ UNCHANGED <<hrun, hpc>>
       ELSE IF hrun < hruns
       THEN hrun' = hrun + 1 /\ hstep' = 1 /\ UNCHANGED hpc
       ELSE hpc' = "readme" /\ UNCHANGED <<hrun, hstep>>
    /\ UNCHANGED <<rvars, gvars, tvars, nvars, pvars, cvars, tar, hruns,
                   hdelete, hdir, htarfile, hend>>

\* hpackage.py 125-230: a step raises (a file cannot be read or copied, a
\* calibration file is in another directory): the with block is left
HpError ==
    /\ hpc = "runs"
    /\ hpc' = "exit"
    /\ hend' = "error"
    /\ UNCHANGED <<rvars, gvars, tvars, nvars, pvars, cvars, tar, hruns, hrun,
                   hstep, hdelete, hdir, htarfile>>

\* hpackage.py 232-234: the README is written
HpReadme ==
    /\ hpc = "readme"
    /\ hpc' = "tar"
    /\ UNCHANGED <<rvars, gvars, tvars, nvars, pvars, cvars, tar, hruns, hrun,
                   hstep, hdelete, hdir, htarfile, hend>>

\* hpackage.py 236-238: tar is run on the directory; the two lines are not
\* under any condition
HpTar ==
    /\ hpc = "tar"
    /\ hpc' = "exit"
    /\ htarfile' = TRUE
    /\ hend' = "normal"
    /\ UNCHANGED <<rvars, gvars, tvars, nvars, pvars, cvars, tar, hruns, hrun,
                   hstep, hdelete, hdir>>

\* hpackage.py 248-251: SIGINT inside the with block: the handler sets
\* delete and exits, which leaves the with block
HpSigint ==
    /\ hpc \in {"entered", "runs", "readme", "tar"}
    /\ hpc' = "exit"
    /\ hdelete' = TRUE
    /\ hend' = "sigint"
    /\ UNCHANGED <<rvars, gvars, tvars, nvars, pvars, cvars, tar, hruns, hrun,
                   hstep, hdir, htarfile>>

\* hpackage.py 256-261: CleanUp.__exit__ removes the directory if delete is
\* set, whatever the way the block was left
HpExit ==
    /\ hpc = "exit"
    /\ hpc' = "ended"
    /\ hdir' = IF hdelete /\ hdir = "exists" THEN "removed" ELSE hdir
    /\ UNCHANGED <<rvars, gvars, tvars, nvars, pvars, cvars, tar, hruns, hrun,
                   hstep, hdelete, htarfile, hend>>

NextHpackage ==
    \/ HpEnter
    \/ HpMakeDir
    \/ HpStep
    \/ HpError
    \/ HpReadme
    \/ HpTar
    \/ HpSigint
    \/ HpExit

SpecHpackage == InitHpackage /\ [][NextHpackage]_vars

(***************************************************************************)
(* ncal (src/hipercam/scripts/ncal.py): the frame loop and its 'last' test. *)
(***************************************************************************)
\* the number of frames the run holds
NRunFrames == MaxItems + 1

\* the frame that spooler.data_source(source, resource, first) yields next:
\* frames come in increasing order from 'first', one per item that is a frame
NcalFrameNo == nfirst + ncount

\* ncal.py 172-194: first, last are read for a server or local source, with
\* last = 0 or last >= first; a file list starts at 1 and has no 'last'.
\* ncal.py 257: nframe starts at 0.
InitNcal ==
    /\ NoRun
    /\ NoGroup
    /\ NoGrab
    /\ NoHpackage
    /\ NoRtplot
    /\ NoCalib
    /\ npc = "loop"
    /\ nsrv \in BOOLEAN
    /\ nfirst \in IF nsrv THEN 1..2 ELSE {1}
    /\ nlast \in IF nsrv THEN {0} \cup nfirst..NRunFrames ELSE {0}
    /\ ntaken = 0
    /\ ncount = 0
    /\ naccessed = <<>>

\* ncal.py 260-274: hang_about answers try_again: continue
NcalTryAgain ==
    /\ npc = "loop"
    /\ nsrv
    /\ ntaken < MaxItems + 1
    /\ ntaken' = ntaken + 1
    /\ UNCHANGED <<rvars, gvars, tvars, hvars, pvars, cvars, npc, nsrv, nfirst,
                   nlast, ncount, naccessed>>

\* ncal.py 260-272: hang_about answers give_up: break
NcalGiveUp ==
    /\ npc = "loop"
    /\ nsrv
    /\ npc' = "done"
    /\ ntaken' = ntaken + 1
    /\ UNCHANGED <<rvars, gvars, tvars, hvars, pvars, cvars, nsrv, nfirst,
                   nlast, ncount, naccessed>>

\* ncal.py 260: a file list comes to its end
NcalSpoolEnd ==
    /\ npc = "loop"
    /\ ~nsrv
    /\ NcalFrameNo > NRunFrames
    /\ npc' = "done"
    /\ UNCHANGED <<rvars, gvars, tvars, hvars, pvars, cvars, nsrv, nfirst,
                   nlast, ntaken, ncount, naccessed>>

\* ncal.py 276-345: a frame is processed, then nframe += 1 and the loop is
\* left if server_or_local and last and nframe > last
NcalFrame ==
    /\ npc = "loop"
    /\ NcalFrameNo <= NRunFrames
    /\ naccessed' = Append(naccessed, NcalFrameNo)
    /\ ncount' = ncount + 1
    /\ ntaken' = ntaken + 1
    /\ npc' = IF nsrv /\ nlast # 0 /\ ncount' > nlast THEN "done" ELSE "loop"
    /\ UNCHANGED <<rvars, gvars, tvars, hvars, pvars, cvars, nsrv, nfirst,
                   nlast>>

NextNcal ==
    \/ NcalTryAgain
    \/ NcalGiveUp
    \/ NcalSpoolEnd
    \/ NcalFrame

SpecNcal == InitNcal /\ [][NextNcal]_vars

(***************************************************************************)
(* rtplot (src/hipercam/scripts/rtplot.py): the profile fit of one target  *)
(* and the update of its stored parameters, frame after frame.             *)
(***************************************************************************)
\* the parameter hmin (rtplot.py 545-547)
Hmin == 2

\* what the search and the fit of one frame can give (rtplot.py 850-883):
\* the peak of the search, the fitted height, position, FWHM and beta, and
\* whether the fitted position is more than 1 pixel inside its window
Fits ==
    [failed : {FALSE}, peak : 1..3, height : 1..3, x : 1..2, fwhm : 1..2,
     beta : 1..2, inside : BOOLEAN]

\* the search or the fit raised HipercamError (rtplot.py 940-946)
FailedFit == [NoFit EXCEPT !.failed = TRUE]

\* rtplot.py 886: the test under which the stored parameters are updated
Accepted(fit) == fit.peak > Hmin /\ fit.inside

\* rtplot.py 888-891: the update; beta is stored for a Moffat fit only
Updated(m, fp, fit) ==
    IF m = "g"
    THEN [fp EXCEPT !.x = fit.x, !.fwhm = fit.fwhm]
    ELSE [fp EXCEPT !.x = fit.x, !.fwhm = fit.fwhm, !.beta = fit.beta]

\* rtplot.py 814: a target was selected, with the initial FWHM and beta
InitRtplot ==
    /\ NoRun
    /\ NoGroup
    /\ NoGrab
    /\ NoHpackage
    /\ NoNcal
    /\ NoCalib
    /\ ppc = "fit"
    /\ method \in {"g", "m"}
    /\ fpar \in [x : 1..2, fwhm : {1}, beta : {1}]
    /\ pfit = NoFit
    /\ pframes = 0

\* rtplot.py 843-939: the search and the fit of a frame return
RtFit ==
    /\ ppc = "fit"
    /\ pframes < MaxItems
    /\ \E fit \in Fits :
        /\ pfit' = fit
        /\ fpar' = IF Accepted(fit) THEN Updated(method, fpar, fit) ELSE fpar
    /\ pframes' = pframes + 1
    /\ UNCHANGED <<rvars, gvars, tvars, hvars, nvars, cvars, ppc, method>>

\* rtplot.py 843-883, 940-946: the search or the fit raises HipercamError
RtFitFailed ==
    /\ ppc = "fit"
    /\ pframes < MaxItems
    /\ pfit' = FailedFit
    /\ pframes' = pframes + 1
    /\ UNCHANGED <<rvars, gvars, tvars, hvars, nvars, cvars, ppc, method,
                   fpar>>

\* the frames come to their end
RtEnd ==
    /\ ppc = "fit"
    /\ pframes = MaxItems
    /\ ppc' = "done"
    /\ UNCHANGED <<rvars, gvars, tvars, hvars, nvars, cvars, method, fpar,
                   pfit, pframes>>

NextRtplot ==
    \/ RtFit
    \/ RtFitFailed
    \/ RtEnd

SpecRtplot == InitRtplot /\ [][NextRtplot]_vars

(***************************************************************************)
(* The calibration of a frame in reduce (reduce.py 382-396), with the      *)
(* frames as objects on a heap: mccd and pccd are references, and an       *)
(* operator either makes a new object or changes the one it is applied to. *)
(***************************************************************************)
\* the pixel values a raw frame can have (one value stands for the frame)
Pixels == 4..7

\* a bias or flat of the reduce file: 0 stands for None
Calibs == 0..2

\* MCCD.__sub__: a new object, the operand is left as it is
Minus(h, ref, b) == [heap |-> Append(h, h[ref] - b), ref |-> Len(h) + 1]

\* MCCD.copy: a new object with the same values
Copy(h, ref) == [heap |-> Append(h, h[ref]), ref |-> Len(h) + 1]

\* MCCD.__itruediv__: the object itself is divided
DivideInPlace(h, ref, f) == [h EXCEPT ![ref] = h[ref] \div f]

\* a bias subtraction done on the raw frame itself, which pccd then names
DebiasInPlace(h, m, b) ==
    [heap |-> [h EXCEPT ![m] = h[m] - b], ref |-> m]

\* reduce.py 382-390: pccd = mccd - rfile.bias, or pccd = mccd.copy()
Debias(h, m, b) == IF b # 0 THEN Minus(h, m, b) ELSE Copy(h, m)

\* reduce.py 392-394: pccd /= rfile.flat if there is a flat
FlatField(h, p, f) == IF f # 0 THEN DivideInPlace(h, p, f) ELSE h

InitCalib ==
    /\ NoRun
    /\ NoGroup
    /\ NoGrab
    /\ NoHpackage
    /\ NoNcal
    /\ NoRtplot
    /\ cpc = "fetch"
    /\ cbias \in Calibs
    /\ cflat \in Calibs
    /\ craw = 0
    /\ heap = << >>
    /\ mccd = 0
    /\ pccd = 0

\* reduce.py 347: the loop binds mccd to the frame the source produced
CalFetch ==
    /\ cpc = "fetch"
    /\ \E v \in Pixels :
        /\ craw' = v
        /\ heap' = <<v>>
    /\ mccd' = 1
    /\ pccd' = 0
    /\ cpc' = "debias"
    /\ UNCHANGED <<rvars, gvars, tvars, hvars, nvars, pvars, cbias, cflat>>

\* reduce.py 382-390
CalDebias ==
    /\ cpc = "debias"
    /\ heap' = Debias(heap, mccd, cbias).heap
    /\ pccd' = Debias(heap, mccd, cbias).ref
    /\ cpc' = "flat"
    /\ UNCHANGED <<rvars, gvars, tvars, hvars, nvars, pvars, cbias, cflat,
                   craw, mccd>>

\* reduce.py 392-394
CalFlat ==
    /\ cpc = "flat"
    /\ heap' = FlatField(heap, pccd, cflat)
    /\ cpc' = "process"
    /\ UNCHANGED <<rvars, gvars, tvars, hvars, nvars, pvars, cbias, cflat,
                   craw, mccd, pccd>>

\* reduce.py 395-396: process_ccds is given pccd and mccd; the loop then
\* goes on to the next frame
CalProcess ==
    /\ cpc = "process"
    /\ cpc' = "fetch"
    /\ UNCHANGED <<rvars, gvars, tvars, hvars, nvars, pvars, cbias, cflat,
                   craw, heap, mccd, pccd>>

NextCalib ==
    \/ CalFetch
    \/ CalDebias
    \/ CalFlat
    \/ CalProcess

SpecCalib == InitCalib /\ [][NextCalib]_vars

(***************************************************************************)
(* Properties.                                                             *)
(***************************************************************************)
\* the CCD names of a result list, in the order of the list
ResultNames(res) == [i \in 1..Len(res) |-> res[i].cnam]

\* C1: whenever process_ccds has returned the results of a frame, they are
\* in the canonical order of the frame's active CCDs, whatever the order in
\* which the workers ended.
InvC1 ==
    pc \in {"log", "plot"} => ResultNames(results) = ArgList(cur)

\* C1 happens: with a pool, CCD "2" ended before CCD "1" and the results of
\* both have been merged
WitnessC1 ==
    /\ pc = "log"
    /\ ncpu > 1
    /\ completed = <<"2", "1">>
    /\ Len(results) = 2


\* the CCDs on which processing raises in a frame
RaisedIn(frame) == {c \in CCDs : Raises(frame, c)}

\* the results of a frame hold, for each CCD that raised, a failure result
\* with no valid aperture, and for every other active CCD its own results
IsolatedC2 ==
    pc \in {"log", "plot"} =>
        /\ ResultNames(results) = ArgList(cur)
        /\ \A i \in 1..Len(results) :
              IF results[i].cnam \in RaisedIn(cur)
              THEN /\ results[i].failed
                   /\ \A a \in DOMAIN results[i].res : results[i].res[a].bad
              ELSE ~results[i].failed

\* the log write of a frame gives an alert for each CCD that raised
AlertedC2 ==
    pc = "plot" =>
        \A c \in RaisedIn(cur) : \E i \in 1..Len(alerts) : alerts[i] = c

\* C2: if processing one CCD raises during a frame, the other CCDs of the
\* frame are still processed, the failing CCD gives a flagged failure result
\* with no valid aperture, the frame gets an alert, and the run goes on to
\* the next frame (unless the user stops it).
ClaimC2 ==
    [][/\ IsolatedC2'
       /\ AlertedC2'
       /\ (pc = "plot" /\ RaisedIn(cur) # {} /\ pc' # "aborted")
            => pc' = "fetch"]_vars

\* the entry of the authoritative Store a worker of CCD c starts from
EntryOf(c) == IF c \in DOMAIN store THEN store[c] ELSE NewEntry

\* C3: frames are processed one at a time: while any worker of a frame is
\* out, every frame before it has been merged into the Store, each queued
\* task starts from that Store, and no frame is started until the one
\* before it has been merged.
InvC3 ==
    /\ pc = "work" =>
          /\ started = merged + 1
          /\ \A c \in DOMAIN tasks :
                tasks[c].state = "queued" => tasks[c].store[c] = EntryOf(c)
    /\ pc \in {"fetch", "log", "plot", "done", "crashed"} =>
          /\ started = merged
          /\ tasks = NoTasks

\* C3 happens: the workers of the second frame are out, one has ended, and
\* the Store holds what the first frame put there
WitnessC3 ==
    /\ pc = "work"
    /\ started = 2
    /\ merged = 1
    /\ Len(completed) = 1
    /\ \E c \in DOMAIN store : store[c].mfwhm # NoFwhm

\* a result list is complete for the frame: one entry for each active CCD
Complete(res) == ResultNames(res) = ArgList(cur)

\* C4: what the log writer and update_plots are given for a frame is the
\* complete result list of the frame, given after process_ccds has merged
\* the frame, in every state of a run and also when the run is aborted.
InvC4 ==
    /\ results # << >> => Complete(results)
    /\ written # << >> => Complete(written)
    /\ plotted # << >> => Complete(plotted)
    /\ Len(logged) <= merged
    /\ Len(lbuffer) <= Len(logged)

\* C4 happens: the run was aborted while the workers of the second frame were
\* out, one of two having ended; the first frame is in the log and in the
\* buffer, the second left nothing
WitnessC4 ==
    /\ pc = "aborted"
    /\ started = 2
    /\ merged = 1
    /\ Len(completed) = 1
    /\ Cardinality(Active(cur)) = 2
    /\ Len(logged) = 1
    /\ Len(lbuffer) = 1
    /\ written = << >>


RECURSIVE SerialRun(_, _, _, _, _)
\* the CCDs of 'order' processed one after the other in the caller, on the
\* Store and the apertures themselves: tracking, then extraction; a CCD
\* that raises leaves a failure result and changes nothing
SerialRun(order, frame, st, ap, res) ==
    IF order = << >> THEN [results |-> res, store |-> st, aper |-> ap]
    ELSE LET c == Head(order)
             e == IF c \in DOMAIN st THEN st[c] ELSE NewEntry
             m == moveApers(c, frame, ap[c], e)
         IN  IF Raises(frame, c)
             THEN SerialRun(Tail(order), frame, st, ap,
                            Append(res, FailureResult(c, ap)))
             ELSE SerialRun(Tail(order), frame, Put(st, c, m.store),
                            Put(ap, c, m.ccdaper),
                            Append(res, [cnam |-> c, failed |-> FALSE,
                                         res |-> extractFlux(c, frame,
                                                   m.ccdaper, m.store)]))

ThmC7 ==
    [][(pc = "work" /\ pc' = "log") =>
         \A c \in Active(cur) \ RaisedIn(cur) : \A a \in ApIds(c) :
            FitRejected(FitOf(cur, c, a)) =>
               /\ aper'[c][a] = aper[c][a]
               /\ \E i \in 1..Len(results') :
                     /\ results'[i].cnam = c
                     /\ ~results'[i].failed
                     /\ DOMAIN results'[i].res = ApIds(c)
                     /\ results'[i].res[a].bad
                     /\ results'[i].res[a].x = aper[c][a]]_vars

\* C7 happens: aperture 1 of CCD "2" had moved off its reference position in
\* an earlier frame; in this frame the target is elsewhere but too faint,
\* and the aperture has stayed
WitnessC7 ==
    /\ pc = "log"
    /\ cur.scene["2"] = "faint"
    /\ aper["2"][1] = RefX("2", 1) + 1
    /\ FitOf(cur, "2", 1).x # aper["2"][1]
    /\ results[Len(results)].res[1].bad

RECURSIVE NumResults(_)
\* the number of ExtractionResults in a result list
NumResults(res) ==
    IF res = << >> THEN 0
    ELSE Cardinality(DOMAIN Head(res).res) + NumResults(Tail(res))

RECURSIVE NumApertures(_)
\* the number of apertures of the CCDs in 'order'
NumApertures(order) ==
    IF order = << >> THEN 0
    ELSE Cardinality(ApIds(Head(order))) + NumApertures(Tail(order))

\* C8: the results of a frame hold as many ExtractionResults as the active
\* CCDs of the frame have apertures.
InvC8 ==
    pc \in {"log", "plot"} => NumResults(results) = NumApertures(ArgList(cur))

\* C8 happens: a frame with a rejected fit on CCD "1" (two apertures) and a
\* good CCD "2" has three results, one of them flagged
WitnessC8 ==
    /\ pc = "log"
    /\ cur.scene["1"] = "wide"
    /\ cur.scene["2"] = "good"
    /\ NumResults(results) = 3
    /\ results[1].res[2].bad
    /\ ~results[1].res[1].bad

\* s is what is left of t after dropping some of its first elements
IsSuffix(s, t) ==
    /\ Len(s) <= Len(t)
    /\ s = SubSeq(t, Len(t) - Len(s) + 1, Len(t))

\* C9: each call of update_plots appends the frame's point to the buffer;
\* with a keep window the buffer is then the series with some of its oldest
\* points dropped, and spans no more than the window; with tkeep = 0 nothing
\* is dropped.
ThmC9 ==
    [][(pc = "plot" /\ pc' = "fetch") =>
         LET new == Append(lbuffer, [t |-> nf, nframe |-> nframe])
         IN  IF tkeep = 0 THEN lbuffer' = new
             ELSE /\ lbuffer' # << >>
                  /\ IsSuffix(lbuffer', new)
                  /\ lbuffer'[Len(lbuffer')] = new[Len(new)]
                  /\ lbuffer'[Len(lbuffer')].t - lbuffer'[1].t <= tkeep]_vars

\* C9 happens: with a keep window of 1, the third frame has pushed the
\* first out of the buffer
WitnessC9 ==
    /\ pc = "fetch"
    /\ tkeep = 1
    /\ Len(logged) = 3
    /\ Len(lbuffer) = 2
    /\ lbuffer[1].t = 2

\* the part of the series 'pts' no older than 'keep' before its newest point
Within(pts, keep) ==
    LET Recent(p) == pts[Len(pts)].t - p.t <= keep
    IN  SelectSeq(pts, Recent)

\* C10: once the points inserted span more than the keep window, the buffer
\* spans no more than the window and holds every inserted point that is no
\* older than the window before the newest, the point exactly that old too.
InvC10 ==
    (/\ pc = "fetch"
     /\ tkeep # 0
     /\ logged # << >>
     /\ logged[Len(logged)].t - logged[1].t > tkeep) =>
        /\ lbuffer # << >>
        /\ lbuffer[Len(lbuffer)].t - lbuffer[1].t <= tkeep
        /\ lbuffer = Within(logged, tkeep)

\* C10 happens: points at times 1, 2 and 3 with a keep window of 1 leave the
\* points at 2 and 3: the one exactly 1 older than the newest is kept
WitnessC10 ==
    /\ pc = "fetch"
    /\ tkeep = 1
    /\ Len(logged) = 3
    /\ logged[1].t = 1
    /\ Len(lbuffer) = 2
    /\ lbuffer[1].t = 2
    /\ lbuffer[2].t = 3

\* s is what t began with
IsPrefix(s, t) ==
    /\ Len(s) <= Len(t)
    /\ s = SubSeq(t, 1, Len(s))

\* C11: the log only grows: no step removes or changes an entry written to
\* it, whatever tkeep is; a step that changes the buffer leaves the log as it
\* is and adds the point of the frame logged last, so the log write of a
\* frame comes before its buffer update; and once the log write of a frame
\* is over, every frame processed so far is in the log.
ThmC11 ==
    [][/\ IsPrefix(logged, logged')
       /\ lbuffer' # lbuffer =>
             /\ logged' = logged
             /\ logged # << >>
             /\ lbuffer' # << >>
             /\ lbuffer'[Len(lbuffer')].t = logged[Len(logged)].t
             /\ lbuffer'[Len(lbuffer')].nframe = logged[Len(logged)].nframe
       /\ pc' \in {"plot", "fetch", "done", "crashed"} =>
             Len(logged') = merged']_vars

\* C11 happens: the run has ended; with a keep window of 1 the first of
\* three frames has left the buffer and is still in the log
WitnessC11 ==
    /\ pc = "done"
    /\ tkeep = 1
    /\ merged = 3
    /\ Len(logged) = 3
    /\ logged[1].t = 1
    /\ Len(lbuffer) = 2
    /\ lbuffer[1].t = 2

\* the frame numbers of a series of points increase strictly
Increasing(pts) ==
    \A i \in 1..(Len(pts) - 1) : pts[i].nframe < pts[i + 1].nframe

ClaimC13 ==
    [][~cur'.good =>
         /\ started' = started
         /\ store' = store
         /\ pc' \notin {"work", "log", "plot"}]_vars

\* the initial checks have failed: a frame was numbered (reduce.py 362-366)
\* and tzset was not set (reduce.py 375-380)
ChecksFailed == ~tzset /\ nframe # 0

\* nothing has been tracked, extracted, logged or plotted in this run
NothingDone ==
    /\ started = 0
    /\ merged = 0
    /\ store = [c \in {} |-> NewEntry]
    /\ aper = InitAper
    /\ tasks = NoTasks
    /\ logged = << >>
    /\ written = << >>
    /\ plotted = << >>
    /\ lbuffer = << >>

\* C14, as stated: when the initial checks fail the run halts with an error
\* before the frame loop has begun, that is before any item was taken from
\* the spool.
ClaimC14 == ChecksFailed => (pc = "crashed" /\ nf = 0)

\* C14, amended: when the initial checks fail, on the first frame the loop
\* gets, the run ends there by leaving the loop: it takes no further step,
\* and no frame has been tracked, extracted, logged or plotted.
ThmC14 ==
    [][/\ ~ChecksFailed
       /\ ChecksFailed' => (pc' = "done" /\ NothingDone')]_vars

\* C14 happens: the source had nothing at first, then gave a frame on which
\* the initial checks failed; the run is over
WitnessC14 ==
    /\ ChecksFailed
    /\ pc = "done"
    /\ nf = 2
    /\ started = 0

ClaimC16 ==
    gst = "built" =>
        \A i, j \in 1..Len(g) : g[i].item.type = g[j].item.type

\* C17: no two members of a Group clash, and every pair of distinct members
\* has been through the clash check.
InvC17 ==
    gst = "built" =>
        \A i, j \in 1..Len(g) :
            i < j => /\ ~Clash(g[i].item, g[j].item)
                     /\ {g[i].key, g[j].key} \in checked

\* C17 happens: a Group of two members has refused, for the clash alone, a
\* third item under a new integer key
WitnessC17 ==
    /\ gst = "built"
    /\ Len(g) = 2
    /\ glast.op = "set"
    /\ glast.raised
    /\ glast.key = "int"
    /\ glast.isnew
    /\ ~glast.mixed
    /\ glast.clash

\* C18: every key of a Group is an integer; a constructor given a key that
\* is not one raises and leaves no Group, an insertion under such a key
\* raises and stores nothing.
InvC18 ==
    /\ \A i \in 1..Len(g) : g[i].key.kind = "int"
    /\ glast.key \notin {"int", "none"} => glast.raised
    /\ (glast.key \notin {"int", "none"} /\ glast.op = "init") =>
          (gst = "failed" /\ g = << >>)

\* C18 happens: an insertion under a string key, of an item that fits in
\* every other respect, was refused by a Group that has members
WitnessC18 ==
    /\ gst = "built"
    /\ g # << >>
    /\ glast.op = "set"
    /\ glast.key = "str"
    /\ glast.raised
    /\ ~glast.mixed
    /\ ~glast.clash

\* C19: when grab, run with temp, has been ended by SIGINT, none of the
\* temporary files it created is left: not a frame file, not the list file.
ClaimC19 == (temp /\ tpc = "exited") => disk = {}

\* C20: when grab, run with temp, has returned, it has returned the name of
\* the list file, which exists and holds the names of the frame files
\* written, in the order written, each of them the name of a file that
\* exists; and grab ends with HipercamError, returning nothing, just when
\* the loop ended with no frame written.
InvC20 ==
    /\ (temp /\ tpc = "returned") =>
          /\ ret = ListName
          /\ ret = flist
          /\ ret \in disk
          /\ listed = wrote
          /\ wrote # << >>
          /\ Range(wrote) \subseteq disk
          /\ Cardinality(Range(wrote)) = Len(wrote)
          /\ ret \notin Range(wrote)
    /\ (temp /\ tpc \in {"tolist", "mklist", "flisted", "listdone"}) =>
          wrote # << >>
    /\ tpc = "raised" => (temp /\ wrote = << >> /\ ret = NoName /\ disk = {})

\* C20 happens: grab has returned after writing two frames
WitnessC20 ==
    /\ temp
    /\ tpc = "returned"
    /\ Len(wrote) = 2
    /\ listed = <<(<<"hcm", 1>>), (<<"hcm", 2>>)>>
    /\ ret = ListName

\* C21: hpackage makes the tar file only when 'tar' is true.
ClaimC21 == htarfile => tar

\* C22: when hpackage has ended, its temporary directory is gone if 'tar'
\* is true or the program was ended early by SIGINT or by an error, and is
\* there if 'tar' is false and the program finished normally.
ClaimC22 ==
    hpc = "ended" =>
        IF tar \/ hend \in {"sigint", "error"}
        THEN hdir # "exists"
        ELSE hdir = "exists"

\* C23: with a server or local source and last # 0, ncal accesses no frame
\* after frame number 'last'.
ClaimC23 ==
    (nsrv /\ nlast # 0) =>
        \A i \in 1..Len(naccessed) : naccessed[i] <= nlast

\* C24: for each setting of lplot and implot reduce goes on reducing and
\* logging frames: leaving out a plot never ends the run with an error,
\* neither before the first frame nor after a frame has been logged.
ClaimC24 == pc # "crashed"

\* C25: in rtplot's profile fitting, a frame on which the target's fit
\* fails or has a height below hmin leaves the target's stored position,
\* FWHM and beta as they were before the frame.
ClaimC25 ==
    [][(pframes' # pframes /\ (pfit'.failed \/ pfit'.height < Hmin))
         => fpar' = fpar]_vars

\* C26: bias subtraction and flat-fielding change only the processed copy:
\* while mccd names a frame, and so when it is passed on to judge
\* saturation, the frame has the pixel values the source produced, whether
\* or not a bias or a flat is configured; pccd is another object.
InvC26 ==
    mccd # 0 =>
        /\ heap[mccd] = craw
        /\ pccd # mccd

\* a frame with a bias and a flat is passed on: the processed copy differs
\* from the raw frame
WitnessC26 ==
    /\ cpc = "process"
    /\ cbias # 0
    /\ cflat = 2
    /\ heap[pccd] # heap[mccd]
    /\ heap[mccd] = craw

\* C27: an insertion into a Group that fails (key not an integer, item of
\* another type than otype, or a clash with a member) leaves the keys, the
\* values and their order as they were before the call.
ThmC27 ==
    [][(gst = "built" /\ glast'.op = "set" /\ glast'.raised) => g' = g]_vars

\* an insertion under a new integer key into a Group of two members has
\* failed on a clash
WitnessC27 ==
    /\ gst = "built"
    /\ glast.op = "set"
    /\ glast.raised
    /\ glast.key = "int"
    /\ glast.isnew
    /\ glast.clash
    /\ ~glast.mixed
    /\ Len(g) = 2

\* C30: an assignment to a key that is in the Group checks the new item
\* against every member, the one under that key included: it raises, and
\* changes nothing, whenever the new item clashes with a member, so an
\* assignment that went through has put no item in the place of one it
\* clashes with.
ThmC30 ==
    [][(gst = "built" /\ glast'.op = "set" /\ glast'.key = "int"
          /\ ~glast'.isnew)
         => /\ glast'.clash => (glast'.raised /\ g' = g)
            /\ ~glast'.raised =>
                 \A i \in 1..Len(g) :
                    g'[i].item # g[i].item
                      => ~Clash(g'[i].item, g[i].item)]_vars

\* the assignment of an item of the right type to the key of the only
\* member has raised on a clash, which can only be with the item it would
\* have replaced
WitnessC30 ==
    /\ gst = "built"
    /\ Len(g) = 1
    /\ glast.op = "set"
    /\ glast.key = "int"
    /\ ~glast.isnew
    /\ ~glast.mixed
    /\ glast.clash
    /\ glast.raised

\* C28: an item of the frame loop that is not numbered as a frame, because
\* the wait policy answered try_again or give_up for it, causes no
\* processing, no log write, no plot update and no Store change; after it
\* the loop is ready for the next item or has ended, and once the loop has
\* ended no frame is processed, logged or plotted any more.
ThmC28 ==
    [][/\ (pc = "fetch" /\ nf' = nf + 1 /\ nframe' = nframe) =>
            /\ pc' \in {"fetch", "done"}
            /\ UNCHANGED <<cur, store, aper, tasks, completed, results,
                           alerts, started, merged, logged, written,
                           plotted, lbuffer, tzset>>
       /\ pc = "done" =>
            /\ pc' = "done"
            /\ UNCHANGED <<nf, started, merged, store, logged, plotted,
                           lbuffer>>]_vars

\* two items were taken and one frame was logged and plotted: for the other
\* item the policy answered try_again, and the loop is ready for the next
WitnessC28 ==
    /\ srvloc
    /\ pc = "fetch"
    /\ nf = 2
    /\ Len(logged) = 1
    /\ Len(lbuffer) = 1
    /\ started = 1

\* C29: for a CCD whose processing returned, what ccdproc returns under the
\* CCD's name is the Store entry and the apertures as moveApers left them,
\* and the results are those of extractFlux run on these: every result is
\* at the position tracking gave its aperture and is flagged exactly if
\* tracking marked its aperture in the Store entry.
InvC29 ==
    \A c \in DOMAIN tasks :
        (tasks[c].state = "done" /\ ~tasks[c].ret.raised) =>
            LET r == tasks[c].ret
                m == moveApers(c, cur, tasks[c].aper[c], tasks[c].store[c])
            IN  /\ r.cnam = c
                /\ r.store = m.store
                /\ r.ccdaper = m.ccdaper
                /\ DOMAIN r.results = DOMAIN r.ccdaper
                /\ \A a \in DOMAIN r.results :
                      /\ r.results[a].x = r.ccdaper[a]
                      /\ r.results[a].bad = (a \in r.store.bad)

\* a CCD has returned from a frame in which tracking moved an aperture and
\* changed the Store entry
WitnessC29 ==
    /\ pc = "work"
    /\ \E c \in DOMAIN tasks :
          /\ tasks[c].state = "done"
          /\ ~tasks[c].ret.raised
          /\ tasks[c].ret.ccdaper # tasks[c].aper[c]
          /\ tasks[c].ret.store # tasks[c].store[c]

====
